---- MODULE Spec2Model ----
(***************************************************************************)
(* A model of plugins/safe_score_manager.py: the SafeScoreManagerPlugin of *)
(* a chat-bot host.  The plugin keeps one whitelist and one score record   *)
(* in memory, loads both from files in on_load, and serves the command     *)
(* "safe": an empty argument reads the score, a non-empty one sets it.     *)
(*                                                                         *)
(* handle_safe is a coroutine.  It is modelled one step per stretch of     *)
(* code between two awaits: Invoke runs from the entry to the first await  *)
(* (self.reply or save_json), SaveReturns / SaveRaises and ReplyReturns /  *)
(* ReplyRaises are the two ways each awaited call can end, and Return      *)
(* hands the finished call back to the host.                               *)
(***************************************************************************)
EXTENDS Integers, Sequences, FiniteSets, TLC

\* ---------------------------------------------------------------- bounds
\* Longest command argument, in characters.
MaxLen == 2
\* The clock runs from 1 to MaxTime ticks.
MaxTime == 2
\* Clock ticks per second: time.time() is finer than the second strftime shows.
TicksPerSecond == 2

\* Callers (handler.user_id) and handler activations the host may hold.
Users == {"u1", "u2"}
Procs == {1, 2}
\* Characters a command argument is made of: two digits and a non-digit.
Alphabet == {"0", "7", "-"}
Contents == UNION {[1..n -> Alphabet] : n \in 0..MaxLen}

\* ------------------------------------------------------- Python's values
\* Optional values: None is the empty tuple, a present value v is <<v>>.
None == <<>>
Some(v) == <<v>>
\* A dict is a function from the keys it holds; {} holds none.
EmptyDict == [k \in {} |-> 0]
\* d[k] = v
Put(d, k, v) == [x \in (DOMAIN d) \cup {k} |-> IF x = k THEN v ELSE d[x]]
\* d.get(k)
Get(d, k) == IF k \in DOMAIN d THEN Some(d[k]) ELSE None
\* Python truth of an optional number: None and 0 are false.
Truthy(o) == o # None /\ o[1] # 0

VARIABLES
    whitelist,       \* self.whitelist: a sequence of user ids
    whitelist_file,  \* config/whitelist.yaml
    score_data,      \* self.score_data: a dict
    score_file,      \* data/persistence/safe_score.json
    loaded,          \* on_load has run, the host dispatches commands
    now,             \* time.time(), in ticks
    frame,           \* per activation of handle_safe: its position and locals
    wlSeen,          \* history: the whitelist file as the latest call of
                     \* load_whitelist found it
    lastSet          \* history: the score and the time the latest command to
                     \* reach lines 95-96 wrote, and how its save ended

vars == <<whitelist, whitelist_file, wlSeen, score_data, score_file, loaded, now, frame, lastSet>>

\* ------------------------------------------------------------ the files
\* The whitelist file: absent, or what yaml.safe_load makes of it.
WlAbsent == [state |-> "absent", val |-> <<>>]
WlList(l) == [state |-> "list", val |-> l]
WlNotList == [state |-> "notlist", val |-> <<>>]
WlInvalid == [state |-> "invalid", val |-> <<>>]
\* load_whitelist has not been called yet
WlNotSeen == [state |-> "none", val |-> <<>>]

\* The score file: absent, unreadable, or a JSON object written as the
\* sequence of its <<key, value>> members.
FileAbsent == [state |-> "absent", doc |-> <<>>]
FileUnreadable == [state |-> "unreadable", doc |-> <<>>]
FileOf(doc) == [state |-> "ok", doc |-> doc]

KeyOrder == <<"score", "last_update">>

\* save_json's encoding of a dict: its members, one after the other.
Dump(d) ==
    LET present(k) == k \in DOMAIN d
        keys == SelectSeq(KeyOrder, present)
    IN  [i \in 1..Len(keys) |-> <<keys[i], d[keys[i]]>>]

\* load_json(path, default={}): the object of the file, the default when
\* the file is absent or unreadable.
load_json(f) ==
    IF f.state # "ok" THEN EmptyDict
    ELSE [k \in {f.doc[i][1] : i \in DOMAIN f.doc} |->
            LET i == CHOOSE j \in DOMAIN f.doc : f.doc[j][1] = k IN f.doc[i][2]]

\* ---------------------------------------------------------- sanitizing
ASCII_DIGITS == <<"0", "1", "2", "3", "4", "5", "6", "7", "8", "9">>
IsDigit(ch) == \E i \in DOMAIN ASCII_DIGITS : ASCII_DIGITS[i] = ch
DigitValue(ch) == (CHOOSE i \in DOMAIN ASCII_DIGITS : ASCII_DIGITS[i] = ch) - 1

\* Sanitize with the pattern [^1-9]: zeros are dropped with the rest
Sanitize_NoZero(content) ==
    LET keep(ch) == IsDigit(ch) /\ ch # "0" IN SelectSeq(content, keep)

\* re.sub(r'[^0-9]', '', content)
Sanitize(content) == SelectSeq(content, IsDigit)

\* int(cleaned_content) of a string of digits
RECURSIVE IntOf(_)
IntOf(s) ==
    IF s = <<>> THEN 0
    ELSE 10 * IntOf(SubSeq(s, 1, Len(s) - 1)) + DigitValue(s[Len(s)])

\* int() raises ValueError on more digits than this (CPython's default limit).
INT_MAX_STR_DIGITS == 4300

\* ---------------------------------------------------------- formatting
RECURSIVE DecStr(_)
DecStr(n) ==
    IF n < 10 THEN <<ASCII_DIGITS[n + 1]>>
    ELSE Append(DecStr(n \div 10), ASCII_DIGITS[(n % 10) + 1])

RECURSIVE Commas(_)
Commas(s) ==
    IF Len(s) <= 3 THEN s
    ELSE Commas(SubSeq(s, 1, Len(s) - 3)) \o <<",">> \o SubSeq(s, Len(s) - 2, Len(s))

\* f"{score:,}"
FormatScore(n) == IF n < 0 THEN <<"-">> \o Commas(DecStr(0 - n)) ELSE Commas(DecStr(n))

\* datetime.fromtimestamp(last_update).strftime('%Y-%m-%d %H:%M:%S'): whole seconds
FormatTime(t) == t \div TicksPerSecond

\* ------------------------------------------------------------- replies
Msg(kind, score, time) == [kind |-> kind, score |-> score, time |-> time]
NoMsg == Msg("none", None, None)
ScoreMsg(score, last_update) ==
    Msg("score", Some(FormatScore(score)),
        IF Truthy(last_update) THEN Some(FormatTime(last_update[1])) ELSE None)
NotConfiguredMsg == Msg("not_configured", None, None)
DeniedMsg == Msg("denied", None, None)
NoDigitsMsg == Msg("no_digits", None, None)
NegativeMsg == Msg("negative", None, None)
UpdatedMsg(n) == Msg("updated", Some(FormatScore(n)), None)
InvalidNumberMsg == Msg("invalid_number", None, None)
ErrorMsg == Msg("error", None, None)

\* ------------------------------------------------------------ the plugin
\* get_safe_score with a default: score_data.get("score", 0)
get_safe_score_DefaultZero ==
    <<IF "score" \in DOMAIN score_data THEN Some(score_data["score"]) ELSE Some(0),
      Get(score_data, "last_update")>>

\* get_safe_score
get_safe_score == <<Get(score_data, "score"), Get(score_data, "last_update")>>

\* is_authorized
is_authorized(user_id) == \E i \in DOMAIN whitelist : whitelist[i] = user_id

\* What handle_safe sees before a call of it changes anything.
Snapshot ==
    [score_data |-> score_data, score_file |-> score_file, whitelist |-> whitelist]

IdleFrame ==
    [pc |-> "idle", user_id |-> "", content |-> <<>>, new_score |-> None,
     out |-> NoMsg, replies |-> <<>>, result |-> "none", saved |-> "none",
     payload |-> FileAbsent,
     entry |-> [score_data |-> EmptyDict, score_file |-> FileAbsent, whitelist |-> <<>>]]

NoSet == [committed |-> FALSE, score |-> 0, ts |-> 0, saved |-> "none"]

\* The files the plugin may find when it starts: no score file, or one that
\* holds a full record, a score without its last_update, or a negative score.
InitDicts ==
    {Put(Put(EmptyDict, "score", 7), "last_update", 1),
     Put(EmptyDict, "score", 7),
     Put(Put(EmptyDict, "score", 0 - 1), "last_update", 1)}
InitScoreFiles == {FileAbsent} \cup {FileOf(Dump(d)) : d \in InitDicts}
InitWhitelistFiles == {WlAbsent, WlList(<<>>), WlList(<<"u1">>), WlNotList, WlInvalid}

\* __init__
Init ==
    /\ whitelist = <<>>
    /\ score_data = EmptyDict
    /\ whitelist_file \in InitWhitelistFiles
    /\ score_file \in InitScoreFiles
    /\ loaded = FALSE
    /\ now = 1
    /\ frame = [p \in Procs |-> IdleFrame]
    /\ lastSet = NoSet
    /\ wlSeen = WlNotSeen

AllIdle == \A p \in Procs : frame[p].pc = "idle"

\* time passes
Tick ==
    /\ now < MaxTime
    /\ now' = now + 1
    /\ UNCHANGED <<whitelist, whitelist_file, wlSeen, score_data, score_file, loaded, frame, lastSet>>

\* load_whitelist without line 52: a failed read keeps the whitelist
load_whitelist_KeepOnError ==
    IF whitelist_file.state = "absent"
    THEN \/ /\ whitelist_file' = WlList(<<>>)
            /\ whitelist' = <<>>
         \/ /\ UNCHANGED <<whitelist_file, whitelist>>
    ELSE /\ whitelist' = CASE whitelist_file.state = "list" -> whitelist_file.val
                           [] whitelist_file.state = "invalid" -> whitelist
                           [] OTHER -> <<>>
         /\ UNCHANGED whitelist_file

\* load_whitelist writing the file back as [] when it resets the whitelist
load_whitelist_Overwrite ==
    IF whitelist_file.state = "absent"
    THEN \/ /\ whitelist_file' = WlList(<<>>)
            /\ whitelist' = <<>>
         \/ /\ UNCHANGED <<whitelist_file, whitelist>>
    ELSE /\ whitelist' = IF whitelist_file.state = "list" THEN whitelist_file.val ELSE <<>>
         /\ whitelist_file' = IF whitelist_file.state = "list" THEN whitelist_file
                              ELSE WlList(<<>>)

\* load_whitelist
load_whitelist ==
    IF whitelist_file.state = "absent"
    THEN \* lines 33-41: create the file holding [], or log the failure
         \/ /\ whitelist_file' = WlList(<<>>)
            /\ whitelist' = <<>>
         \/ /\ UNCHANGED <<whitelist_file, whitelist>>
    ELSE \* lines 42-52: the parsed list, [] when it is no list or reading fails
         /\ whitelist' = IF whitelist_file.state = "list" THEN whitelist_file.val ELSE <<>>
         /\ UNCHANGED whitelist_file

\* on_load
OnLoad ==
    /\ AllIdle
    /\ load_whitelist
    /\ wlSeen' = whitelist_file
    /\ score_data' = load_json(score_file)
    /\ loaded' = TRUE
    /\ UNCHANGED <<score_file, now, frame, lastSet>>

\* Branch with the argument sanitized before the caller is authorized
Branch_SanitizeFirst(user_id, content) ==
    IF content = <<>> THEN "read"
    ELSE IF Sanitize(content) = <<>> THEN "no_digits"
    ELSE IF ~is_authorized(user_id) THEN "denied"
    ELSE "commit"

\* Branch with the caller authorized before the argument is looked at
Branch_AuthFirst(user_id, content) ==
    IF ~is_authorized(user_id) THEN "denied"
    ELSE IF content = <<>> THEN "read"
    ELSE IF Sanitize(content) = <<>> THEN "no_digits"
    ELSE "commit"

\* Branch with a leading minus sign read as the sign of the number
Branch_Signed(user_id, content) ==
    IF content = <<>> THEN "read"
    ELSE IF ~is_authorized(user_id) THEN "denied"
    ELSE IF Sanitize(content) = <<>> THEN "no_digits"
    ELSE IF Head(content) = "-" /\ IntOf(Sanitize(content)) > 0 THEN "negative"
    ELSE "commit"

\* Branch without the test of line 85: int('') raises ValueError
Branch_NoEmptyCheck(user_id, content) ==
    IF content = <<>> THEN "read"
    ELSE IF ~is_authorized(user_id) THEN "denied"
    ELSE IF Sanitize(content) = <<>> THEN "invalid_number"
    ELSE "commit"

\* handle_safe, lines 63-93: which way a call goes
Branch(user_id, content) ==
    IF content = <<>> THEN "read"
    ELSE IF ~is_authorized(user_id) THEN "denied"
    ELSE LET cleaned_content == Sanitize(content) IN
         IF cleaned_content = <<>> THEN "no_digits"
         ELSE IF Len(cleaned_content) > INT_MAX_STR_DIGITS THEN "invalid_number"
         ELSE IF IntOf(cleaned_content) < 0 THEN "negative"
         ELSE "commit"

\* handle_safe, lines 65-70: the reply of the read path
ReadReply ==
    LET score == get_safe_score[1]
        last_update == get_safe_score[2]
    IN  IF score # None THEN ScoreMsg(score[1], last_update) ELSE NotConfiguredMsg

\* Commit without line 96
Commit_ScoreOnly(d, new_score, t) == Put(d, "score", new_score)

\* handle_safe, lines 95-96
Commit(d, new_score, t) == Put(Put(d, "score", new_score), "last_update", t)

\* Persisted with the score alone handed to save_json
Persisted_ScoreOnly(d) == FileOf(Dump(Put(EmptyDict, "score", d["score"])))

\* handle_safe, line 97: what save_json is given to write
Persisted(d) == FileOf(Dump(d))

\* handle_safe from its entry to its first await, run in activation p.
\* save_json is handed the dict itself: payload is what it writes if it
\* encodes the dict before it first suspends.
Enter(p, user_id, content) ==
    /\ LET b == Branch(user_id, content)
           new_score == IntOf(Sanitize(content))
           f == [IdleFrame EXCEPT !.user_id = user_id, !.content = content,
                                  !.entry = Snapshot]
       IN  IF b = "commit"
           THEN /\ score_data' = Commit(score_data, new_score, now)
                /\ frame' = [frame EXCEPT ![p] =
                        [f EXCEPT !.pc = "save", !.new_score = Some(new_score),
                                  !.payload = Persisted(Commit(score_data, new_score, now))]]
                /\ lastSet' = [committed |-> TRUE, score |-> new_score,
                               ts |-> now, saved |-> "pending"]
           ELSE /\ frame' = [frame EXCEPT ![p] =
                        [f EXCEPT !.pc = "reply_" \o b,
                                  !.out = CASE b = "read" -> ReadReply
                                            [] b = "denied" -> DeniedMsg
                                            [] b = "no_digits" -> NoDigitsMsg
                                            [] b = "negative" -> NegativeMsg
                                            [] OTHER -> InvalidNumberMsg]]
                /\ UNCHANGED <<score_data, lastSet>>
    /\ UNCHANGED <<whitelist, whitelist_file, wlSeen, score_file, loaded, now>>

\* the host runs one command at a time, in its first free activation
Invoke(p, user_id, content) ==
    /\ loaded
    /\ AllIdle
    /\ \A q \in Procs : q >= p
    /\ Enter(p, user_id, content)

\* the host starts a command while another is suspended at an await
InvokeOverlapped(p, user_id, content) ==
    /\ loaded
    /\ frame[p].pc = "idle"
    /\ Enter(p, user_id, content)

\* save_json returns: the file holds the dict, as it was when save_json was
\* called or as it is when the write is made; the two are the same dict
\* unless another command changed it in between
SaveReturns(p) ==
    /\ frame[p].pc = "save"
    /\ score_file' \in {frame[p].payload, Persisted(score_data)}
    /\ frame' = [frame EXCEPT ![p].pc = "reply_updated", ![p].saved = "ok",
                              ![p].out = UpdatedMsg(frame[p].new_score[1])]
    /\ lastSet' = [lastSet EXCEPT !.saved = "ok"]
    /\ UNCHANGED <<whitelist, whitelist_file, wlSeen, score_data, loaded, now>>

\* SaveRaises with the exception swallowed: the handler goes on to confirm
SaveRaises_Swallowed(p) ==
    /\ frame[p].pc = "save"
    /\ score_file' \in {score_file, FileUnreadable}
    /\ frame' = [frame EXCEPT ![p].pc = "reply_updated", ![p].saved = "failed",
                              ![p].out = UpdatedMsg(frame[p].new_score[1])]
    /\ lastSet' = [lastSet EXCEPT !.saved = "failed"]
    /\ UNCHANGED <<whitelist, whitelist_file, wlSeen, score_data, loaded, now>>

\* save_json raises: the file is as it was or is left unreadable; line 104 catches
SaveRaises(p) ==
    /\ frame[p].pc = "save"
    /\ score_file' \in {score_file, FileUnreadable}
    /\ frame' = [frame EXCEPT ![p].pc = "reply_error", ![p].saved = "failed",
                              ![p].out = ErrorMsg]
    /\ lastSet' = [lastSet EXCEPT !.saved = "failed"]
    /\ UNCHANGED <<whitelist, whitelist_file, wlSeen, score_data, loaded, now>>

Replying == {"reply_read", "reply_denied", "reply_no_digits", "reply_negative",
             "reply_updated", "reply_invalid_number", "reply_error"}
\* the replies sent inside the try block of lines 89-100
InTry == {"reply_negative", "reply_updated"}

\* self.reply returns: the message is delivered and the handler returns
ReplyReturns(p) ==
    /\ frame[p].pc \in Replying
    /\ frame' = [frame EXCEPT ![p].pc = "done", ![p].result = "returned",
                   ![p].replies = Append(@, [msg |-> frame[p].out, delivered |-> TRUE])]
    /\ UNCHANGED <<whitelist, whitelist_file, wlSeen, score_data, score_file, loaded, now, lastSet>>

\* self.reply raises: inside the try block line 104 catches it and line 106
\* replies again; anywhere else the exception leaves handle_safe
ReplyRaises(p) ==
    /\ frame[p].pc \in Replying
    /\ LET sent == Append(frame[p].replies, [msg |-> frame[p].out, delivered |-> FALSE])
       IN  IF frame[p].pc \in InTry
           THEN frame' = [frame EXCEPT ![p].pc = "reply_error", ![p].out = ErrorMsg,
                                       ![p].replies = sent]
           ELSE frame' = [frame EXCEPT ![p].pc = "done", ![p].result = "raised",
                                       ![p].replies = sent]
    /\ UNCHANGED <<whitelist, whitelist_file, wlSeen, score_data, score_file, loaded, now, lastSet>>

\* the host takes the finished call back
Return(p) ==
    /\ frame[p].pc = "done"
    /\ frame' = [frame EXCEPT ![p] = IdleFrame]
    /\ UNCHANGED <<whitelist, whitelist_file, wlSeen, score_data, score_file, loaded, now, lastSet>>

Next ==
    \/ OnLoad
    \/ Tick
    \/ \E p \in Procs, user_id \in Users, content \in Contents : Invoke(p, user_id, content)
    \/ \E p \in Procs : SaveReturns(p)
    \/ \E p \in Procs : SaveRaises(p)
    \/ \E p \in Procs : ReplyReturns(p)
    \/ \E p \in Procs : ReplyRaises(p)
    \/ \E p \in Procs : Return(p)

Spec == Init /\ [][Next]_vars

\* config/whitelist.yaml is edited, replaced or deleted from outside the plugin
WhitelistFileEdited ==
    /\ whitelist_file' \in InitWhitelistFiles \ {whitelist_file}
    /\ UNCHANGED <<whitelist, wlSeen, score_data, score_file, loaded, now, frame, lastSet>>

\* The whitelist store by itself: the file is maintained from outside and
\* on_load is called again, any number of times, between the changes.
NextWhitelistEdited ==
    \/ OnLoad
    \/ Tick
    \/ WhitelistFileEdited

SpecWhitelistEdited == Init /\ [][NextWhitelistEdited]_vars

\* The plugin under a host that does not wait for a command to end before
\* it starts the next: commands overlap at their awaits. Each activation
\* runs one command, and every write and every reply goes through.
NextOverlapped ==
    \/ OnLoad
    \/ Tick
    \/ \E p \in Procs, user_id \in Users, content \in Contents :
            InvokeOverlapped(p, user_id, content)
    \/ \E p \in Procs : SaveReturns(p)
    \/ \E p \in Procs : ReplyReturns(p)

SpecOverlapped == Init /\ [][NextOverlapped]_vars

\* The plugin over a reply channel that delivers every message, which is all
\* the host's reply capability is described to do.
NextReplyDelivered ==
    \/ OnLoad
    \/ Tick
    \/ \E p \in Procs, user_id \in Users, content \in Contents : Invoke(p, user_id, content)
    \/ \E p \in Procs : SaveReturns(p)
    \/ \E p \in Procs : SaveRaises(p)
    \/ \E p \in Procs : ReplyReturns(p)
    \/ \E p \in Procs : Return(p)

SpecReplyDelivered == Init /\ [][NextReplyDelivered]_vars

\* ------------------------------------------------------------ the claims
Started(p) == frame[p].pc # "idle"
Done(p) == frame[p].pc = "done"
IsRead(p) == Started(p) /\ frame[p].content = <<>>
IsWrite(p) == Started(p) /\ frame[p].content # <<>>
\* the messages a call has passed to self.reply, delivered or not, in order
Msgs(p) == [i \in DOMAIN frame[p].replies |-> frame[p].replies[i].msg]
\* the whitelist held the caller when the call began
Whitelisted(p) ==
    \E i \in DOMAIN frame[p].entry.whitelist : frame[p].entry.whitelist[i] = frame[p].user_id
HasDigit(content) == \E i \in DOMAIN content : IsDigit(content[i])
\* the score record and the score file are as the call found them
ScoreKept(p) ==
    /\ score_data = frame[p].entry.score_data
    /\ score_file = frame[p].entry.score_file

\* The number a string's digits spell, read left to right in one pass.
RECURSIVE DigitsValue(_, _)
DigitsValue(content, acc) ==
    IF content = <<>> THEN acc
    ELSE DigitsValue(Tail(content),
                     IF IsDigit(Head(content)) THEN 10 * acc + DigitValue(Head(content))
                     ELSE acc)

\* C1: a set command (non-empty argument) by a caller outside the whitelist
\* replies permission denied, whatever the argument holds, and never
\* 'no number found'; the score record and the score file stay as they were.
C1_DeniedLeavesScore ==
    \A p \in Procs :
        (IsWrite(p) /\ ~Whitelisted(p)) =>
            /\ ScoreKept(p)
            /\ frame[p].out = DeniedMsg
            /\ frame[p].saved = "none"
            /\ \A i \in DOMAIN frame[p].replies : frame[p].replies[i].msg = DeniedMsg
            /\ Done(p) => Msgs(p) = <<DeniedMsg>>

\* C1 witness: a denied call whose argument holds no digit at all has ended,
\* while a score is stored.
C1_Witness ==
    \E p \in Procs :
        /\ Done(p) /\ IsWrite(p) /\ ~Whitelisted(p)
        /\ ~HasDigit(frame[p].content)
        /\ frame[p].replies = <<[msg |-> DeniedMsg, delivered |-> TRUE]>>
        /\ "score" \in DOMAIN score_data

\* C2: a set command by a whitelisted caller whose argument holds a digit,
\* once its write has succeeded, has stored the number the argument's digits
\* spell in their order together with the time of the set; a read that
\* follows it with no other set in between reports that score and that time.
C2_SetThenRead ==
    /\ \A p \in Procs :
        (IsWrite(p) /\ Whitelisted(p) /\ HasDigit(frame[p].content) /\ frame[p].saved = "ok") =>
            /\ lastSet = [committed |-> TRUE, score |-> DigitsValue(frame[p].content, 0),
                          ts |-> lastSet.ts, saved |-> "ok"]
            /\ Get(score_data, "score") = Some(DigitsValue(frame[p].content, 0))
            /\ Get(score_data, "last_update") = Some(lastSet.ts)
            /\ Get(load_json(score_file), "score") = Some(DigitsValue(frame[p].content, 0))
    /\ \A p \in Procs :
        (IsRead(p) /\ lastSet.committed /\ lastSet.saved = "ok") =>
            /\ frame[p].out = Msg("score", Some(FormatScore(lastSet.score)),
                                  Some(FormatTime(lastSet.ts)))
            /\ \A i \in DOMAIN frame[p].replies : frame[p].replies[i].msg = frame[p].out

\* C2 witness: a read has been answered with the two-digit score of an
\* earlier, successful set, some time after that set.
C2_Witness ==
    \E p \in Procs :
        /\ Done(p) /\ IsRead(p)
        /\ frame[p].replies = <<[msg |-> frame[p].out, delivered |-> TRUE]>>
        /\ lastSet.committed /\ lastSet.saved = "ok"
        /\ lastSet.score >= 10
        /\ now > lastSet.ts

\* C3: a set command whose write fails leaves the score record in memory as it
\* was before the command.
C3_FailedSetLeavesMemory ==
    \A p \in Procs :
        frame[p].saved = "failed" => score_data = frame[p].entry.score_data

\* C4: a set command whose write fails replies with the generic error, never
\* with the confirmation, and returns normally to the host.
C4_FailedSetRepliesError ==
    \A p \in Procs :
        (Done(p) /\ frame[p].saved = "failed") =>
            /\ Msgs(p) = <<ErrorMsg>>
            /\ frame[p].result = "returned"

\* C5: no call with a non-empty argument ends by raising to the host,
\* whichever of its steps fails.
C5_NothingRaised ==
    \A p \in Procs : IsWrite(p) => frame[p].result # "raised"

\* A score record: the score, when set, is a non-negative integer, and
\* last_update is set exactly when the score is.
WellFormed(d) ==
    /\ "score" \in DOMAIN d => d["score"] \in Nat
    /\ "score" \in DOMAIN d <=> "last_update" \in DOMAIN d

\* C6 as stated: the score record in memory is well formed in every state,
\* whatever the score file held when it was loaded.
C6_RecordWellFormed == WellFormed(score_data)

\* C6 as amended: the score record in memory is well formed whenever the score
\* file is absent, unreadable or holds a well-formed record, as every file
\* the plugin writes does; failed set commands included.
C6_WellFormedFromWellFormedFile ==
    WellFormed(load_json(score_file)) => WellFormed(score_data)

\* C6 witness: over an absent or well-formed file a set command failed to
\* write, and the record in memory, empty before, now holds its score.
C6_Witness ==
    \E p \in Procs :
        /\ frame[p].saved = "failed"
        /\ frame[p].entry.score_data = EmptyDict
        /\ "score" \in DOMAIN score_data
        /\ WellFormed(load_json(score_file))

C9_NoDigitsRejected ==
    \A p \in Procs :
        (IsWrite(p) /\ Whitelisted(p) /\ ~HasDigit(frame[p].content)) =>
            /\ ScoreKept(p)
            /\ frame[p].pc # "save"
            /\ frame[p].saved = "none"
            /\ lastSet.saved # "pending"
            /\ frame[p].out = NoDigitsMsg
            /\ \A i \in DOMAIN frame[p].replies : frame[p].replies[i].msg = NoDigitsMsg
            /\ Done(p) => Msgs(p) = <<NoDigitsMsg>>

\* C9 witness: such a command has been answered while a score is stored.
C9_Witness ==
    \E p \in Procs :
        /\ Done(p) /\ IsWrite(p) /\ Whitelisted(p) /\ ~HasDigit(frame[p].content)
        /\ frame[p].replies = <<[msg |-> NoDigitsMsg, delivered |-> TRUE]>>
        /\ "score" \in DOMAIN score_data

\* the call ended with its confirmation delivered
Confirmed(p) ==
    /\ Done(p)
    /\ frame[p].replies # <<>>
    /\ LET last == frame[p].replies[Len(frame[p].replies)]
       IN  last.msg.kind = "updated" /\ last.delivered

\* C10: after a set command that ended with the confirmation, the score file
\* holds the whole record in memory: loading it gives back the same score and
\* the same last_update.
C10_RoundTrip ==
    \A p \in Procs :
        Confirmed(p) =>
            /\ load_json(score_file) = score_data
            /\ Get(load_json(score_file), "score") = frame[p].new_score
            /\ Get(load_json(score_file), "last_update") = Some(lastSet.ts)

\* C10 witness: a confirmed set command over a record that held another
\* score from an earlier time.
C10_Witness ==
    \E p \in Procs :
        /\ Confirmed(p)
        /\ DOMAIN frame[p].entry.score_data = {"score", "last_update"}
        /\ frame[p].entry.score_data["last_update"] < score_data["last_update"]
        /\ frame[p].entry.score_data["score"] # score_data["score"]

\* the whitelist in memory authorizes nobody
NobodyAuthorized == \A user_id \in Users : ~is_authorized(user_id)

\* C11: a call of load_whitelist that finds the whitelist file leaves the
\* parsed list in memory when the file parses to a list, and the empty
\* sequence in every other case (no list, or reading or parsing fails), so
\* that nobody is authorized then; no path of the call raises.
C11_PresentFileLoaded ==
    /\ wlSeen.state = "list" => whitelist = wlSeen.val
    /\ wlSeen.state \in {"notlist", "invalid"} => (whitelist = <<>> /\ NobodyAuthorized)

\* C11 witness: the whitelist held a user, the file was then replaced by one
\* that cannot be read, and a further load has emptied the whitelist.
C11_Witness ==
    /\ wlSeen = WlInvalid
    /\ whitelist = <<>>
    /\ whitelist_file = WlList(<<"u1">>)

\* C12: a call of load_whitelist that finds no whitelist file leaves the
\* whitelist in memory empty, whether or not the file could be created and
\* whatever the whitelist held before.
C12_AbsentFileEmptiesWhitelist ==
    wlSeen.state = "absent" => whitelist = <<>>

\* C13: no step of handle_safe changes the whitelist in memory or the
\* whitelist file, so none changes who is authorized; the one change the
\* plugin makes to the whitelist file is to create it, holding the empty
\* list, when it is absent.
C13_WhitelistReadOnly ==
    [][ /\ (frame' # frame) =>
              /\ whitelist' = whitelist
              /\ whitelist_file' = whitelist_file
              /\ \A user_id \in Users :
                    (\E i \in DOMAIN whitelist' : whitelist'[i] = user_id)
                        <=> is_authorized(user_id)
        /\ (whitelist_file' # whitelist_file) =>
              /\ whitelist_file = WlAbsent
              /\ whitelist_file' = WlList(<<>>) ]_vars

\* C13 witness: a caller outside the whitelist has tried a set and a
\* whitelisted one has completed a set, with the whitelist as it was loaded.
C13_Witness ==
    /\ wlSeen = WlList(<<"u1">>)
    /\ whitelist = <<"u1">>
    /\ whitelist_file = WlList(<<"u1">>)
    /\ lastSet.saved = "ok"
    /\ \E p \in Procs :
        /\ Done(p) /\ IsWrite(p) /\ ~Whitelisted(p)
        /\ ~is_authorized(frame[p].user_id)

\* C14: a call that has ended has passed exactly one message to self.reply:
\* none ends without a reply, none sends a second one, nothing is retried.
C14_ExactlyOneReply ==
    \A p \in Procs : Done(p) => Len(frame[p].replies) = 1

\* a call has the confirmation in hand or has sent it
Confirming(p) ==
    \/ frame[p].pc = "reply_updated"
    \/ \E i \in DOMAIN frame[p].replies : frame[p].replies[i].msg.kind = "updated"

\* C15: the confirmation for score N is sent only after that call's write has
\* succeeded: whenever a call is sending or has sent it, the score file holds
\* score N with the last_update that call wrote.
C15_ConfirmAfterCommit ==
    \A p \in Procs :
        Confirming(p) =>
            /\ frame[p].saved = "ok"
            /\ frame[p].new_score # None
            /\ \A i \in DOMAIN frame[p].replies :
                  frame[p].replies[i].msg.kind = "updated" =>
                      frame[p].replies[i].msg = UpdatedMsg(frame[p].new_score[1])
            /\ score_file.state = "ok"
            /\ Get(load_json(score_file), "score") = frame[p].new_score
            /\ Get(load_json(score_file), "last_update") = Some(lastSet.ts)

\* C15 witness: the confirmation of a set has been delivered, over a file
\* that held another score before.
C15_Witness ==
    \E p \in Procs :
        /\ Done(p)
        /\ frame[p].new_score # None
        /\ frame[p].replies = <<[msg |-> UpdatedMsg(frame[p].new_score[1]), delivered |-> TRUE]>>
        /\ frame[p].entry.score_file.state = "ok"
        /\ Get(load_json(frame[p].entry.score_file), "score") # frame[p].new_score

\* C16: no call, whatever its argument and its caller, reaches the reply
\* 'score cannot be negative'; an argument with a leading minus sign is
\* accepted as the number its digits spell.
C16_NegativeUnreachable ==
    \A p \in Procs :
        /\ frame[p].pc # "reply_negative"
        /\ frame[p].out # NegativeMsg
        /\ \A i \in DOMAIN frame[p].replies : frame[p].replies[i].msg # NegativeMsg
        /\ frame[p].new_score # None => frame[p].new_score[1] >= 0
        /\ (IsWrite(p) /\ Whitelisted(p) /\ HasDigit(frame[p].content)
                /\ Head(frame[p].content) = "-") =>
              frame[p].new_score = Some(DigitsValue(frame[p].content, 0))

\* C16 witness: the argument '-7' of a whitelisted caller has been stored
\* and confirmed as 7.
C16_Witness ==
    \E p \in Procs :
        /\ Done(p) /\ Whitelisted(p)
        /\ frame[p].content = <<"-", "7">>
        /\ frame[p].saved = "ok"
        /\ score_data["score"] = 7
        /\ frame[p].replies = <<[msg |-> UpdatedMsg(7), delivered |-> TRUE]>>

\* a set command has ended after its write succeeded
WroteAndDone(p) == Done(p) /\ frame[p].saved = "ok"

\* C17: once two overlapping set commands have both completed, their writes
\* made, the score file holds the record that is in memory, and that record
\* is the score and last_update one of the two commands wrote.
C17_NoLostUpdate ==
    \A p, q \in Procs :
        (p # q /\ WroteAndDone(p) /\ WroteAndDone(q)) =>
            /\ load_json(score_file) = score_data
            /\ score_file \in {frame[p].payload, frame[q].payload}

====
